---- MODULE Spec2Model ----
(***************************************************************************)
(* apps-helper: the JSON-backed application registry of src/main.rs.       *)
(* Every CLI invocation is one load -> mutate -> save cycle on the backing *)
(* file; the file is the only state that survives an invocation.           *)
(*                                                                         *)
(* Strings are sequences of one-character strings, so that to_lowercase,   *)
(* trim, split and normalize_name are computed character by character.     *)
(* Paths are sequences of segments.  Option<T> is None or <<"Some", v>>.   *)
(***************************************************************************)
EXTENDS Integers, Sequences, FiniteSets, TLC

VARIABLES
    file,    \* content of ~/.apps-helper/apps.json, or NoFile
    clock,   \* the wall clock read by chrono::Utc::now()
    last,    \* the outcome of the most recent invocation (observation only)
    invocations  \* the processes that run concurrently: position and memory

vars == <<file, clock, last, invocations>>

\* ------------------------------------------------------------------ bounds

\* The clock advances at most this far.
MaxTime == 1

\* ------------------------------------------------------------- Option<T>

None == <<"None">>
Some(v) == <<"Some", v>>
IsSome(o) == o[1] = "Some"
Unwrap(o) == o[2]

\* ---------------------------------------------------------------- strings

UpperChars == {"A", "B", "M", "P", "Y", "N"}
LowerChars == {"a", "b", "c", "d", "e", "h", "j", "k", "m", "n", "o", "p", "q", "r",
               "s", "t", "u", "w", "x", "y"}
Whitespace == {" ", "\n"}

\* char::to_lowercase on the characters in use
LowerChar(c) ==
    CASE c = "A" -> "a"
      [] c = "B" -> "b"
      [] c = "M" -> "m"
      [] c = "P" -> "p"
      [] c = "Y" -> "y"
      [] c = "N" -> "n"
      [] OTHER -> c

\* char::is_alphanumeric
IsAlphanumeric(c) == c \in (UpperChars \cup LowerChars)

\* str::to_lowercase
to_lowercase(s) == [i \in 1..Len(s) |-> LowerChar(s[i])]

\* normalize_name: keep the alphanumeric characters, then lower-case
normalize_name(name) == to_lowercase(SelectSeq(name, IsAlphanumeric))

\* str::contains(needle)
contains(hay, needle) ==
    \E i \in 0..(Len(hay) - Len(needle)) :
        SubSeq(hay, i + 1, i + Len(needle)) = needle

RECURSIVE TrimStart(_)
TrimStart(s) ==
    IF s # <<>> /\ Head(s) \in Whitespace THEN TrimStart(Tail(s)) ELSE s

RECURSIVE TrimEnd(_)
TrimEnd(s) ==
    IF s # <<>> /\ s[Len(s)] \in Whitespace
    THEN TrimEnd(SubSeq(s, 1, Len(s) - 1))
    ELSE s

\* str::trim
trim(s) == TrimEnd(TrimStart(s))

\* str::split(','): the pieces between the commas, empty pieces included
RECURSIVE SplitFrom(_, _)
SplitFrom(s, cur) ==
    IF s = <<>> THEN <<cur>>
    ELSE IF Head(s) = "," THEN <<cur>> \o SplitFrom(Tail(s), <<>>)
    ELSE SplitFrom(Tail(s), Append(cur, Head(s)))

split_comma(s) == SplitFrom(s, <<>>)

\* ------------------------------------------------------------- data model

\* enum ProfileType
ProfileType == {"Dev", "Installed", "Binary", "Config"}

\* struct AppProfile
AppProfile(profile_type, location, machine_name, notes, active) ==
    [profile_type |-> profile_type, location |-> location,
     machine_name |-> machine_name, notes |-> notes, active |-> active]

\* an App built without its directory field
App_without_directory(name, profiles, directory, tags, github_repo, created_at, updated_at) ==
    [name |-> name, profiles |-> profiles, directory |-> None, tags |-> tags,
     github_repo |-> github_repo, created_at |-> created_at, updated_at |-> updated_at]

\* struct App
App(name, profiles, directory, tags, github_repo, created_at, updated_at) ==
    [name |-> name, profiles |-> profiles, directory |-> directory, tags |-> tags,
     github_repo |-> github_repo, created_at |-> created_at, updated_at |-> updated_at]

\* HashMap::new(): the map with no key
EmptyMap == [k \in {} |-> None]

\* struct AppsData; AppsData::default() has no application
AppsData(apps) == [apps |-> apps]

\* the backing file does not exist
NoFile == [missing |-> TRUE]

\* no application (a failed resolution, or an invocation without a target)
NoApp == [absent |-> TRUE]

\* ------------------------------------------------- the JSON representation

\* #[serde(rename_all = "lowercase")] on ProfileType
ProfileTypeToJson(t) ==
    CASE t = "Dev" -> "dev"
      [] t = "Installed" -> "installed"
      [] t = "Binary" -> "binary"
      [] t = "Config" -> "config"

ProfileTypeFromJson(j) ==
    CASE j = "dev" -> "Dev"
      [] j = "installed" -> "Installed"
      [] j = "binary" -> "Binary"
      [] j = "config" -> "Config"

\* Option<T> is written as null or as the value
OptionToJson(o) == IF IsSome(o) THEN <<"value", Unwrap(o)>> ELSE <<"null">>
OptionFromJson(j) == IF j[1] = "value" THEN Some(j[2]) ELSE None

ProfileToJson(p) ==
    [profile_type |-> ProfileTypeToJson(p.profile_type),
     location |-> p.location,
     machine_name |-> OptionToJson(p.machine_name),
     notes |-> OptionToJson(p.notes),
     active |-> p.active]

ProfileFromJson(j) ==
    AppProfile(ProfileTypeFromJson(j.profile_type), j.location,
               OptionFromJson(j.machine_name), OptionFromJson(j.notes), j.active)

AppToJson(a) ==
    [name |-> a.name,
     profiles |-> [i \in 1..Len(a.profiles) |-> ProfileToJson(a.profiles[i])],
     directory |-> OptionToJson(a.directory),
     tags |-> a.tags,
     github_repo |-> OptionToJson(a.github_repo),
     created_at |-> a.created_at,
     updated_at |-> a.updated_at]

AppFromJson(j) ==
    App(j.name,
        [i \in 1..Len(j.profiles) |-> ProfileFromJson(j.profiles[i])],
        OptionFromJson(j.directory), j.tags, OptionFromJson(j.github_repo),
        j.created_at, j.updated_at)

\* serde_json::to_string_pretty(data)
to_json(data) == [apps |-> [k \in DOMAIN data.apps |-> AppToJson(data.apps[k])]]

\* serde_json::from_str(content)
from_json(content) ==
    AppsData([k \in DOMAIN content.apps |-> AppFromJson(content.apps[k])])

\* ------------------------------------------------------------ persistence

\* the migration taking the directory out of the legacy field
migrate_moves_directory(app) ==
    IF app.profiles = <<>> /\ IsSome(app.directory)
    THEN [app EXCEPT !.profiles =
              Append(@, AppProfile("Dev", Unwrap(app.directory), None, None, TRUE)),
                     !.directory = None]
    ELSE app

\* the legacy-directory migration applied to one application on load
migrate(app) ==
    IF app.profiles = <<>> /\ IsSome(app.directory)
    THEN [app EXCEPT !.profiles =
              Append(@, AppProfile("Dev", Unwrap(app.directory), None, None, TRUE))]
    ELSE app

\* load_data: an empty store when the file is missing, else parse and migrate
load_data(f) ==
    IF f = NoFile
    THEN AppsData(EmptyMap)
    ELSE LET data == from_json(f)
         IN AppsData([k \in DOMAIN data.apps |-> migrate(data.apps[k])])

\* save_data: the content the file holds after the write
save_data(data) == to_json(data)

\* --------------------------------------------------------- profile manager

Ok(app) == [err |-> "Ok", app |-> app]
Err(e, app) == [err |-> e, app |-> app]

HasType(profiles, profile_type) ==
    \E i \in 1..Len(profiles) : profiles[i].profile_type = profile_type

\* add_profile with every new profile active
add_profile_always_active(app, profile_type, location, machine, notes, now) ==
    IF HasType(app.profiles, profile_type)
    THEN Err("DuplicateProfileType", app)
    ELSE Ok([app EXCEPT
               !.profiles = Append(@, AppProfile(profile_type, location, machine,
                                                 notes, TRUE)),
               !.updated_at = now])

\* add_profile without the duplicate check
add_profile_unchecked(app, profile_type, location, machine, notes, now) ==
    LET is_first_profile == app.profiles = <<>>
    IN Ok([app EXCEPT
             !.profiles = Append(@, AppProfile(profile_type, location, machine,
                                               notes, is_first_profile)),
             !.updated_at = now])

\* add_profile inserting at the front of the list
add_profile_front(app, profile_type, location, machine, notes, now) ==
    IF HasType(app.profiles, profile_type)
    THEN Err("DuplicateProfileType", app)
    ELSE LET is_first_profile == app.profiles = <<>>
         IN Ok([app EXCEPT
                  !.profiles = <<AppProfile(profile_type, location, machine,
                                            notes, is_first_profile)>> \o @,
                  !.updated_at = now])

\* add_profile refreshing updated_at before the duplicate check
add_profile_touch_first(app, profile_type, location, machine, notes, now) ==
    IF HasType(app.profiles, profile_type)
    THEN Err("DuplicateProfileType", [app EXCEPT !.updated_at = now])
    ELSE LET is_first_profile == app.profiles = <<>>
         IN Ok([app EXCEPT
                  !.profiles = Append(@, AppProfile(profile_type, location, machine,
                                                    notes, is_first_profile)),
                  !.updated_at = now])

\* add_profile: the result and the application as the call leaves it
add_profile(app, profile_type, location, machine, notes, now) ==
    IF HasType(app.profiles, profile_type)
    THEN Err("DuplicateProfileType", app)
    ELSE LET is_first_profile == app.profiles = <<>>
         IN Ok([app EXCEPT
                  !.profiles = Append(@, AppProfile(profile_type, location, machine,
                                                    notes, is_first_profile)),
                  !.updated_at = now])

\* activate_profile without the else arm that clears the other flags
activate_profile_keeps_others(app, profile_type, now) ==
    LET marked == [i \in 1..Len(app.profiles) |->
                     [app.profiles[i] EXCEPT
                        !.active = (@ \/ app.profiles[i].profile_type = profile_type)]]
        found == HasType(app.profiles, profile_type)
    IN IF ~found
       THEN Err("ProfileTypeNotFound", [app EXCEPT !.profiles = marked])
       ELSE Ok([app EXCEPT !.profiles = marked, !.updated_at = now])

\* activate_profile: the loop writes every flag before `found` is looked at
activate_profile(app, profile_type, now) ==
    LET marked == [i \in 1..Len(app.profiles) |->
                     [app.profiles[i] EXCEPT
                        !.active = (app.profiles[i].profile_type = profile_type)]]
        found == HasType(app.profiles, profile_type)
    IN IF ~found
       THEN Err("ProfileTypeNotFound", [app EXCEPT !.profiles = marked])
       ELSE Ok([app EXCEPT !.profiles = marked, !.updated_at = now])

\* remove_profile switching the profile off instead of deleting it
remove_profile_keeps_entry(app, profile_type, now) ==
    IF ~HasType(app.profiles, profile_type)
    THEN Err("ProfileTypeNotFound", app)
    ELSE Ok([app EXCEPT
               !.profiles = [i \in 1..Len(@) |->
                               IF @[i].profile_type = profile_type
                               THEN [@[i] EXCEPT !.active = FALSE]
                               ELSE @[i]],
               !.updated_at = now])

\* remove_profile without the step that makes a remaining profile active
remove_profile_no_reactivate(app, profile_type, now) ==
    LET keep(p) == p.profile_type # profile_type
        retained == SelectSeq(app.profiles, keep)
    IN IF Len(retained) = Len(app.profiles)
       THEN Err("ProfileTypeNotFound", [app EXCEPT !.profiles = retained])
       ELSE Ok([app EXCEPT !.profiles = retained, !.updated_at = now])

\* remove_profile making the last remaining profile active
remove_profile_last(app, profile_type, now) ==
    LET keep(p) == p.profile_type # profile_type
        retained == SelectSeq(app.profiles, keep)
        reactivated ==
            IF retained # <<>> /\ ~(\E i \in 1..Len(retained) : retained[i].active)
            THEN [retained EXCEPT ![Len(retained)].active = TRUE]
            ELSE retained
    IN IF Len(retained) = Len(app.profiles)
       THEN Err("ProfileTypeNotFound", [app EXCEPT !.profiles = retained])
       ELSE Ok([app EXCEPT !.profiles = reactivated, !.updated_at = now])

\* remove_profile
remove_profile(app, profile_type, now) ==
    LET keep(p) == p.profile_type # profile_type
        retained == SelectSeq(app.profiles, keep)
        reactivated ==
            IF retained # <<>> /\ ~(\E i \in 1..Len(retained) : retained[i].active)
            THEN [retained EXCEPT ![1].active = TRUE]
            ELSE retained
    IN IF Len(retained) = Len(app.profiles)
       THEN Err("ProfileTypeNotFound", [app EXCEPT !.profiles = retained])
       ELSE Ok([app EXCEPT !.profiles = reactivated, !.updated_at = now])

\* ------------------------------------------------------------------ matcher

\* The HashMap is traversed in an unspecified order: each find_* operator is
\* the set of keys the call can return; the empty set stands for Option::None.

ExactHits(apps, search_lower) ==
    {name \in DOMAIN apps : to_lowercase(name) = search_lower}

NormalizedHits(apps, normalized_search) ==
    {name \in DOMAIN apps : normalize_name(to_lowercase(name)) = normalized_search}

\* the contains match tried in one direction only
ContainsHits_one_way(apps, normalized_search) ==
    {name \in DOMAIN apps :
        LET normalized_name == normalize_name(to_lowercase(name))
        IN contains(normalized_search, normalized_name)}

ContainsHits(apps, normalized_search) ==
    {name \in DOMAIN apps :
        LET normalized_name == normalize_name(to_lowercase(name))
        IN \/ contains(normalized_name, normalized_search)
           \/ contains(normalized_search, normalized_name)}

\* find_app_by_name trying the contains match before the normalized match
find_app_by_name_contains_first(data, search_term) ==
    LET search_lower == to_lowercase(search_term)
        normalized_search == normalize_name(search_lower)
    IN IF ExactHits(data.apps, search_lower) # {}
       THEN ExactHits(data.apps, search_lower)
       ELSE IF ContainsHits(data.apps, normalized_search) # {}
       THEN ContainsHits(data.apps, normalized_search)
       ELSE NormalizedHits(data.apps, normalized_search)

\* find_app_by_name without the contains match
find_app_by_name_two_tiers(data, search_term) ==
    LET search_lower == to_lowercase(search_term)
        normalized_search == normalize_name(search_lower)
    IN IF ExactHits(data.apps, search_lower) # {}
       THEN ExactHits(data.apps, search_lower)
       ELSE NormalizedHits(data.apps, normalized_search)

find_app_by_name(data, search_term) ==
    LET search_lower == to_lowercase(search_term)
        normalized_search == normalize_name(search_lower)
    IN IF ExactHits(data.apps, search_lower) # {}
       THEN ExactHits(data.apps, search_lower)
       ELSE IF NormalizedHits(data.apps, normalized_search) # {}
       THEN NormalizedHits(data.apps, normalized_search)
       ELSE ContainsHits(data.apps, normalized_search)

find_app_by_name_mut(data, search_term) ==
    LET search_lower == to_lowercase(search_term)
        normalized_search == normalize_name(search_lower)
        keys == DOMAIN data.apps
        exact == {name \in keys : to_lowercase(name) = search_lower}
        fuzzy == {name \in keys :
                    normalize_name(to_lowercase(name)) = normalized_search}
        partial == {name \in keys :
                      LET normalized_name == normalize_name(to_lowercase(name))
                      IN \/ contains(normalized_name, normalized_search)
                         \/ contains(normalized_search, normalized_name)}
    IN IF exact # {} THEN exact ELSE IF fuzzy # {} THEN fuzzy ELSE partial

find_app_by_current_dir(data, current_dir) ==
    {name \in DOMAIN data.apps :
        \/ \E i \in 1..Len(data.apps[name].profiles) :
              data.apps[name].profiles[i].location = current_dir
        \/ data.apps[name].directory = Some(current_dir)}

\* Path::file_name().and_then(to_str).unwrap_or("unknown")
dir_name(path) ==
    IF path = <<>> THEN <<"u", "n", "k", "n", "o", "w", "n">> ELSE path[Len(path)]

\* HashMap::insert and HashMap::remove
insert(apps, key, app) ==
    [k \in DOMAIN apps \cup {key} |-> IF k = key THEN app ELSE apps[k]]

\* HashMap::clear in the place of HashMap::remove
remove_every_key(apps, key) == [k \in {} |-> apps[k]]

remove(apps, key) == [k \in DOMAIN apps \ {key} |-> apps[k]]

\* ------------------------------------------------------------------ inputs

\* application names and search terms given on the command line
NameA == <<"a">>
NameUpperA == <<"A">>
NameInputs == {NameA, NameUpperA}
TermInputs == {NameA, <<"-">>, <<"b">>}

\* the single application of the per-application specification
OneName == {NameA}
OneTerm == {NameA, <<"-", "A">>, <<"b">>}

\* profile types given to the profile commands
OneType == {"Installed"}
ThreeTypes == {"Dev", "Installed", "Binary"}

\* directories: the working directory /p/a and another one, /q
CurrentDir == << <<"p">>, <<"a">> >>
DirQ == << <<"q">> >>
CwdInputs == {CurrentDir}

\* what get_machine_name() finds in the environment
HostInputs == {Some(<<"h">>)}

\* `app add` arguments besides the name: --dir, --tags, --current-dir
AddArgInputs ==
    {[dir |-> None, tags |-> None, current_dir |-> FALSE],
     [dir |-> Some(DirQ), tags |-> Some(<<"x", ",", " ", "y">>), current_dir |-> FALSE],
     [dir |-> None, tags |-> None, current_dir |-> TRUE]}

\* `profile add` arguments besides the type: --location, --current-dir,
\* --machine, --notes
ProfileArgInputs ==
    {[location |-> Some(DirQ), current_dir |-> FALSE,
      machine |-> Some(<<"m">>), notes |-> Some(<<"n">>)],
     [location |-> None, current_dir |-> FALSE, machine |-> None, notes |-> None]}

\* answers typed at the confirmation prompt
AnswerInputs == {<<" ", "Y", "e", "s", " ", "\n">>, <<"n", "\n">>, <<"\n">>}

\* ------------------------------------------------------------ observation

\* what an invocation leaves in `last`: the command, the key of the application
\* it resolved, the profile type it was given, how it ended, the target
\* application in memory right after load_data and at the end of the handler,
\* and (for some commands) the arguments it read
\* (`round_trip` follows a profile add, remove, add of one type on one application
\* over consecutive invocations: "added" after a successful add, "removed" after
\* the remove that follows it, "readded" after the add that follows that, and
\* "broken" when the remove or the second add was refused.)
RoundTrip(op, key, ptype, result) ==
    LET same == last.key = key /\ last.ptype = ptype
    IN CASE op = "profile_add" /\ result = "Ok" ->
              IF same /\ last.round_trip = "removed" THEN "readded" ELSE "added"
         [] op = "profile_add" /\ result = "DuplicateProfileType" ->
              IF same /\ last.round_trip = "removed" THEN "broken" ELSE "none"
         [] op = "profile_remove" /\ result = "Ok" ->
              IF same /\ last.round_trip \in {"added", "readded"}
              THEN "removed" ELSE "none"
         [] op = "profile_remove" /\ result = "ProfileTypeNotFound" ->
              IF same /\ last.round_trip \in {"added", "readded"}
              THEN "broken" ELSE "none"
         [] OTHER -> "none"

Outcome(op, key, ptype, result, before, after) ==
    [op |-> op, key |-> key, ptype |-> ptype, result |-> result,
     before |-> before, after |-> after,
     round_trip |-> RoundTrip(op, key, ptype, result), args |-> None]

\* the outcome together with the command-line arguments that the handler read
WithArgs(outcome, args) == [outcome EXCEPT !.args = Some(args)]

\* the Err(..) results of the handlers that the error model names (a profile add
\* without --location or --current-dir ends in "LocationRequired"); every other
\* result is an Ok(()) exit
ValidationFailures ==
    {"NameRequired", "DuplicateName", "SelectorRequired", "DuplicateProfileType",
     "ProfileTypeNotFound"}

\* two processes at most run at a time
Invocations == {"first", "second"}

\* a process: where it is in load -> mutate -> save, the store it holds in
\* memory, the store it loaded, the command it ran, and, for the order of
\* events, the number of writes the file had seen when it loaded and its own
\* position among the writes (0: it has not written)
Invocation(pc) ==
    [pc |-> pc, data |-> AppsData(EmptyMap), base |-> AppsData(EmptyMap),
     command |-> None, seen |-> 0, order |-> 0]

\* no process is running besides the one whose invocation is the action
NotRunning == [i \in Invocations |-> Invocation("exit")]

Init ==
    /\ invocations = NotRunning
    /\ file = NoFile
    /\ clock = 0
    /\ last = [op |-> "init", key |-> None, ptype |-> None, result |-> "Ok",
               before |-> NoApp, after |-> NoApp, round_trip |-> "none",
               args |-> None]

\* time passes between invocations
Tick ==
    /\ clock < MaxTime
    /\ clock' = clock + 1
    /\ UNCHANGED <<file, last, invocations>>

\* ------------------------------------------------------------- app add

\* add_app
AddApp(names) ==
    \E data \in {load_data(file)} :
    \E name \in {None} \cup {Some(n) : n \in names}, args \in AddArgInputs,
       current_dir \in CwdInputs, host \in HostInputs :
        LET tag_list ==
                IF IsSome(args.tags)
                THEN LET pieces == split_comma(Unwrap(args.tags))
                     IN [i \in 1..Len(pieces) |-> trim(pieces[i])]
                ELSE <<>>
            directory == IF args.current_dir THEN Some(current_dir) ELSE args.dir
            app_name ==
                IF IsSome(name) THEN Unwrap(name) ELSE dir_name(current_dir)
            now == clock
            profiles ==
                IF IsSome(directory)
                THEN <<AppProfile("Dev", Unwrap(directory), host, None, TRUE)>>
                ELSE <<>>
            app == App(app_name, profiles, directory, tag_list, None, now, now)
        IN /\ UNCHANGED <<clock, invocations>>
           /\ IF ~IsSome(name) /\ ~args.current_dir
              THEN /\ UNCHANGED file
                   /\ last' = Outcome("app_add", None, None, "NameRequired", NoApp, NoApp)
              ELSE IF app_name \in DOMAIN data.apps
              THEN /\ UNCHANGED file
                   /\ last' = Outcome("app_add", Some(app_name), None, "DuplicateName",
                                      data.apps[app_name], data.apps[app_name])
              ELSE /\ file' = save_data([data EXCEPT !.apps = insert(@, app_name, app)])
                   /\ last' = WithArgs(Outcome("app_add", Some(app_name), None, "Ok",
                                               NoApp, app),
                                       [directory |-> directory])

\* ----------------------------------------------------------- app remove

\* remove_app
RemoveApp(terms) ==
    \E data \in {load_data(file)} :
    \E search_term \in {None} \cup {Some(t) : t \in terms}, use_current_dir \in BOOLEAN,
       current_dir \in CwdInputs, answer \in AnswerInputs :
        LET hits == IF use_current_dir
                    THEN find_app_by_current_dir(data, current_dir)
                    ELSE find_app_by_name(data, Unwrap(search_term))
            input == to_lowercase(trim(answer))
            selector == IF use_current_dir THEN "current_dir"
                        ELSE IF IsSome(search_term) THEN "term" ELSE "none"
            unasked == [selector |-> selector, answer |-> None]
            asked == [selector |-> selector, answer |-> Some(answer)]
        IN /\ UNCHANGED <<clock, invocations>>
           /\ IF DOMAIN data.apps = {}
              THEN /\ UNCHANGED file
                   /\ last' = WithArgs(Outcome("app_remove", None, None, "NoApps",
                                               NoApp, NoApp), unasked)
              ELSE IF ~use_current_dir /\ ~IsSome(search_term)
              THEN /\ UNCHANGED file
                   /\ last' = WithArgs(Outcome("app_remove", None, None,
                                               "SelectorRequired", NoApp, NoApp), unasked)
              ELSE IF hits = {}
              THEN /\ UNCHANGED file
                   /\ last' = WithArgs(Outcome("app_remove", None, None, "NotFound",
                                               NoApp, NoApp), unasked)
              ELSE \E key \in hits :
                     LET app == data.apps[key]
                     IN IF input = <<"y">> \/ input = <<"y", "e", "s">>
                        THEN /\ file' = save_data([data EXCEPT
                                                     !.apps = remove(@, app.name)])
                             /\ last' = WithArgs(Outcome("app_remove", Some(key), None,
                                                         "Ok", app, NoApp), asked)
                        ELSE /\ UNCHANGED file
                             /\ last' = WithArgs(Outcome("app_remove", Some(key), None,
                                                         "Cancelled", app, app), asked)

\* ------------------------------------------------------- profile commands

\* the handler writing the store back whatever the operation returned
Finish_always_saves(op, data, key, profile_type, r) ==
    /\ UNCHANGED <<clock, invocations>>
    /\ file' = save_data([data EXCEPT !.apps[key] = r.app])
    /\ last' = Outcome(op, Some(key), Some(profile_type), r.err, data.apps[key], r.app)

\* the handler writing back the application it changed and nothing else
Finish_saves_target_only(op, data, key, profile_type, r) ==
    /\ UNCHANGED <<clock, invocations>>
    /\ IF r.err = "Ok"
       THEN file' = save_data(AppsData([k \in {key} |-> r.app]))
       ELSE UNCHANGED file
    /\ last' = Outcome(op, Some(key), Some(profile_type), r.err, data.apps[key], r.app)

\* the end of a handle_profile_command arm: `?` returns before save_data on
\* Err, else the whole store is written back
Finish(op, data, key, profile_type, r) ==
    /\ UNCHANGED <<clock, invocations>>
    /\ IF r.err = "Ok"
       THEN file' = save_data([data EXCEPT !.apps[key] = r.app])
       ELSE UNCHANGED file
    /\ last' = Outcome(op, Some(key), Some(profile_type), r.err, data.apps[key], r.app)

\* the None arm of handle_profile_command: "App not found", exit Ok
NotFound(op, profile_type) ==
    /\ UNCHANGED <<file, clock, invocations>>
    /\ last' = Outcome(op, None, Some(profile_type), "NotFound", NoApp, NoApp)

\* handle_profile_command, ProfileCommands::Add
ProfileAdd(terms, types) ==
    \E data \in {load_data(file)} :
    \E app_name \in terms, type \in types, args \in ProfileArgInputs,
       current_dir \in CwdInputs, host \in HostInputs :
        LET hits == find_app_by_name_mut(data, app_name)
        IN IF hits = {}
           THEN NotFound("profile_add", type)
           ELSE \E key \in hits :
                  LET app == data.apps[key]
                      machine_name == IF IsSome(args.machine) THEN args.machine ELSE host
                  IN IF args.current_dir
                     THEN Finish("profile_add", data, key, type,
                                 add_profile(app, type, current_dir, machine_name,
                                             args.notes, clock))
                     ELSE IF ~IsSome(args.location)
                     THEN Finish("profile_add", data, key, type,
                                 Err("LocationRequired", app))
                     ELSE Finish("profile_add", data, key, type,
                                 add_profile(app, type, Unwrap(args.location),
                                             machine_name, args.notes, clock))

\* handle_profile_command, ProfileCommands::Activate
ProfileActivate(terms, types) ==
    \E data \in {load_data(file)} :
    \E app_name \in terms, type \in types :
        LET hits == find_app_by_name_mut(data, app_name)
        IN IF hits = {}
           THEN NotFound("profile_activate", type)
           ELSE \E key \in hits :
                  Finish("profile_activate", data, key, type,
                         activate_profile(data.apps[key], type, clock))

\* handle_profile_command, ProfileCommands::Remove
ProfileRemove(terms, types) ==
    \E data \in {load_data(file)} :
    \E app_name \in terms, type \in types :
        LET hits == find_app_by_name_mut(data, app_name)
        IN IF hits = {}
           THEN NotFound("profile_remove", type)
           ELSE \E key \in hits :
                  Finish("profile_remove", data, key, type,
                         remove_profile(data.apps[key], type, clock))

\* ---------------------------------------------------------- specifications

\* the store: two application names that differ by case, one profile type
\* besides the Dev profile that add_app and the migration create
Next ==
    \/ Tick
    \/ AddApp(NameInputs)
    \/ RemoveApp(TermInputs)
    \/ ProfileAdd(TermInputs, OneType)
    \/ ProfileActivate(TermInputs, OneType)
    \/ ProfileRemove(TermInputs, OneType)

Spec == Init /\ [][Next]_vars

\* one application: a single name, three profile types
NextApp ==
    \/ Tick
    \/ AddApp(OneName)
    \/ RemoveApp(OneTerm)
    \/ ProfileAdd(OneTerm, ThreeTypes)
    \/ ProfileActivate(OneTerm, ThreeTypes)
    \/ ProfileRemove(OneTerm, ThreeTypes)

SpecApp == Init /\ [][NextApp]_vars

\* ------------------------------------------------------------ name lookup

\* names and search terms for the matcher: equal ignoring case, equal after
\* normalization, contained in one another, without any alphanumeric character
MyProject == <<"M", "y", "-", "P", "r", "o", "j", "e", "c", "t">>
MyProj == <<"M", "y", "P", "r", "o", "j">>
ResolveNames == {NameA, NameUpperA, <<"a", "b">>, <<"a", "-", "b">>, <<"-">>, MyProject}
ResolveTerms ==
    {NameA, <<"A", "B">>, <<"a", " ", "b">>, <<"b">>, <<"-">>, <<>>, <<"x">>, MyProj}

\* the record `app add <name>` stores when no directory and no tags are given
PlainApp(name) == App(name, <<>>, None, <<>>, None, 0, 0)

\* the files that hold such records
ResolveFiles ==
    {save_data(AppsData([n \in names |-> PlainApp(n)])) : names \in SUBSET ResolveNames}

NoOutcome ==
    [op |-> "init", key |-> None, ptype |-> None, result |-> "Ok",
     before |-> NoApp, after |-> NoApp, round_trip |-> "none", args |-> None]

InitResolve ==
    /\ invocations = NotRunning
    /\ file \in ResolveFiles
    /\ clock = 0
    /\ last = NoOutcome

\* get_app_info
GetApp(terms) ==
    \E data \in {load_data(file)} :
    \E search_term \in terms :
        LET hits == find_app_by_name(data, search_term)
            read == [term |-> search_term]
        IN /\ UNCHANGED <<file, clock, invocations>>
           /\ IF DOMAIN data.apps = {}
              THEN last' = WithArgs(Outcome("get", None, None, "NoApps", NoApp, NoApp),
                                   read)
              ELSE IF hits = {}
              THEN last' = WithArgs(Outcome("get", None, None, "NotFound", NoApp, NoApp),
                                   read)
              ELSE \E key \in hits :
                     last' = WithArgs(Outcome("get", Some(key), None, "Ok",
                                             data.apps[key], data.apps[key]), read)

\* handle_profile_command, ProfileCommands::List
ProfileList(terms) ==
    \E data \in {load_data(file)} :
    \E app_name \in terms :
        LET hits == find_app_by_name_mut(data, app_name)
            read == [term |-> app_name]
        IN /\ UNCHANGED <<file, clock, invocations>>
           /\ IF hits = {}
              THEN last' = WithArgs(Outcome("profile_list", None, None, "NotFound",
                                           NoApp, NoApp), read)
              ELSE \E key \in hits :
                     last' = WithArgs(Outcome("profile_list", Some(key), None, "Ok",
                                             data.apps[key], data.apps[key]), read)

\* lookups on a store of up to six names
NextResolve ==
    \/ GetApp(ResolveTerms)
    \/ ProfileList(ResolveTerms)

SpecResolve == InitResolve /\ [][NextResolve]_vars

\* ---------------------------------------------------------- save and load

\* the orders in which one application can hold a profile of each type
TypeOrders ==
    {order \in [1..Cardinality(ProfileType) -> ProfileType] :
        \A i, j \in DOMAIN order : (i # j) => (order[i] # order[j])}

\* an application with one profile of each type, one of them active
FullApps ==
    {App(NameA,
         [i \in DOMAIN order |->
            AppProfile(order[i], DirQ, IF i = active THEN Some(<<"h">>) ELSE None,
                       IF i = active THEN None ELSE Some(<<"n">>), i = active)],
         None, <<<<"t">>>>, None, 0, 1) :
       order \in TypeOrders, active \in 1..Cardinality(ProfileType)}

\* a second application: as `app add` without a directory stores it, as it is in
\* memory after its only profile was removed, and with its first profile
OtherApps ==
    {PlainApp(<<"a", "b">>),
     App(<<"a", "b">>, <<>>, Some(DirQ), <<>>, None, 0, 1),
     App(<<"a", "b">>, <<AppProfile("Dev", DirQ, None, None, TRUE)>>, Some(DirQ),
         <<>>, None, 0, 0)}

RoundTripStores ==
    {AppsData([n \in {NameA} |-> full]) : full \in FullApps}
    \cup {AppsData([n \in {NameA, other.name} |-> IF n = NameA THEN full ELSE other]) :
            full \in FullApps, other \in OtherApps}

\* save_data called with a store
SaveStore ==
    \E store \in RoundTripStores :
        /\ file' = save_data(store)
        /\ UNCHANGED <<clock, invocations>>
        /\ last' = WithArgs(Outcome("save", None, None, "Ok", NoApp, NoApp),
                            [store |-> store])

\* load_data returning the store it read
LoadStore ==
    /\ UNCHANGED <<file, clock, invocations>>
    /\ last' = WithArgs(Outcome("load", None, None, "Ok", NoApp, NoApp),
                        [store |-> load_data(file)])

NextRoundTrip ==
    \/ SaveStore
    \/ LoadStore

SpecRoundTrip == Init /\ [][NextRoundTrip]_vars

\* ------------------------------------------------- concurrent invocations

\* the profile commands that the racing processes run on application "a"
RaceCommands ==
    {[op |-> "profile_add", type |-> "Installed"],
     [op |-> "profile_add", type |-> "Binary"],
     [op |-> "profile_activate", type |-> "Installed"],
     [op |-> "profile_remove", type |-> "Dev"]}

\* the file before the race: "a" with a Dev profile, alone or with an
\* Installed profile
RaceFiles ==
    {save_data(AppsData([n \in {NameA} |->
        App(NameA, <<AppProfile("Dev", DirQ, None, None, TRUE)>>, None, <<>>, None, 0, 0)])),
     save_data(AppsData([n \in {NameA} |->
        App(NameA, <<AppProfile("Dev", DirQ, None, None, TRUE),
                     AppProfile("Installed", DirQ, None, None, FALSE)>>,
            None, <<>>, None, 0, 0)]))}

InitRace ==
    /\ invocations = [i \in Invocations |-> Invocation("start")]
    /\ file \in RaceFiles
    /\ clock = 0
    /\ last = NoOutcome

\* the number of writes the file has seen
Writes == Cardinality({i \in Invocations : invocations[i].order > 0})

\* the arms of handle_profile_command on the application found
RunCommand(command, app, now) ==
    IF command.op = "profile_add"
    THEN add_profile(app, command.type, DirQ, Some(<<"h">>), None, now)
    ELSE IF command.op = "profile_activate"
    THEN activate_profile(app, command.type, now)
    ELSE remove_profile(app, command.type, now)

\* handle_profile_command: load_data
RaceLoad(i) ==
    /\ invocations[i].pc = "start"
    /\ invocations' = [invocations EXCEPT ![i] =
          [@ EXCEPT !.pc = "loaded", !.data = load_data(file),
                    !.base = load_data(file), !.seen = Writes]]
    /\ UNCHANGED <<file, clock, last>>

\* handle_profile_command: the lookup and the operation on the store in
\* memory; the process exits without saving when the application is not found
\* or the operation returns Err
RaceMutate(i) ==
    /\ invocations[i].pc = "loaded"
    /\ UNCHANGED <<file, clock, last>>
    /\ \E command \in RaceCommands :
         LET data == invocations[i].data
             hits == find_app_by_name_mut(data, NameA)
         IN IF hits = {}
            THEN invocations' = [invocations EXCEPT ![i].pc = "exit"]
            ELSE \E key \in hits :
                   LET r == RunCommand(command, data.apps[key], clock)
                       ran == [op |-> command.op, type |-> command.type, key |-> key]
                   IN IF r.err = "Ok"
                      THEN invocations' = [invocations EXCEPT ![i] =
                             [@ EXCEPT !.pc = "mutated", !.command = Some(ran),
                                       !.data = [data EXCEPT !.apps[key] = r.app]]]
                      ELSE invocations' = [invocations EXCEPT ![i].pc = "exit"]

\* a save that runs the command again on the file as it is now
RaceSave_merging(i) ==
    /\ invocations[i].pc = "mutated"
    /\ LET current == load_data(file)
           ran == Unwrap(invocations[i].command)
           r == RunCommand(ran, current.apps[ran.key], clock)
       IN file' = save_data(IF r.err = "Ok"
                            THEN [current EXCEPT !.apps[ran.key] = r.app]
                            ELSE current)
    /\ invocations' = [invocations EXCEPT ![i] =
          [@ EXCEPT !.pc = "exit", !.order = Writes + 1]]
    /\ last' = WithArgs(Outcome(Unwrap(invocations[i].command).op,
                                Some(Unwrap(invocations[i].command).key),
                                Some(Unwrap(invocations[i].command).type), "Ok",
                                NoApp, NoApp), [invocation |-> i])
    /\ UNCHANGED clock

\* handle_profile_command: save_data writes the whole store held in memory
RaceSave(i) ==
    /\ invocations[i].pc = "mutated"
    /\ file' = save_data(invocations[i].data)
    /\ invocations' = [invocations EXCEPT ![i] =
          [@ EXCEPT !.pc = "exit", !.order = Writes + 1]]
    /\ last' = WithArgs(Outcome(Unwrap(invocations[i].command).op,
                                Some(Unwrap(invocations[i].command).key),
                                Some(Unwrap(invocations[i].command).type), "Ok",
                                NoApp, NoApp), [invocation |-> i])
    /\ UNCHANGED clock

NextRace ==
    \/ \E i \in Invocations : RaceLoad(i)
    \/ \E i \in Invocations : RaceMutate(i)
    \/ \E i \in Invocations : RaceSave(i)

SpecRace == InitRace /\ [][NextRace]_vars

\* ------------------------------------------------------------------ claims

\* the store as the file holds it (no migration), and as load_data returns it
Stored == IF file = NoFile THEN AppsData(EmptyMap) ELSE from_json(file)
Loaded == load_data(file)

ActiveIndexes(profiles) == {i \in 1..Len(profiles) : profiles[i].active}
TypeIndexes(profiles, t) == {i \in 1..Len(profiles) : profiles[i].profile_type = t}
Without(profiles, t) ==
    LET other(p) == p.profile_type # t IN SelectSeq(profiles, other)

\* the target application of the last invocation, as the file now holds it
StoredTarget == Stored.apps[Unwrap(last.key)]

\* C1: after activate(app, T) succeeds, exactly one profile of the application
\* is active and it is the profile of type T, in memory and in the file written.
ActivateLeavesOnlyTargetActive ==
    (last.op = "profile_activate" /\ last.result = "Ok") =>
        /\ Cardinality(ActiveIndexes(last.after.profiles)) = 1
        /\ ActiveIndexes(last.after.profiles)
             = TypeIndexes(last.after.profiles, Unwrap(last.ptype))
        /\ StoredTarget = last.after

\* C1 witness: an activation that moved the flag away from another profile
ActivateMovedTheFlag ==
    /\ last.op = "profile_activate"
    /\ last.result = "Ok"
    /\ Len(last.before.profiles) >= 3
    /\ \E i \in ActiveIndexes(last.before.profiles) :
          last.before.profiles[i].profile_type # Unwrap(last.ptype)

\* C2: a failed activate (ProfileTypeNotFound) leaves every profile's active flag
\* and updated_at of the application as they were before the call.
FailedActivateChangesNothing ==
    (last.op = "profile_activate" /\ last.result = "ProfileTypeNotFound") =>
        /\ \A i \in 1..Len(last.before.profiles) :
              last.after.profiles[i].active = last.before.profiles[i].active
        /\ last.after.updated_at = last.before.updated_at

\* C3: every application, as stored and as loaded, has at most one active profile.
AtMostOneActive ==
    /\ \A k \in DOMAIN Stored.apps :
          Cardinality(ActiveIndexes(Stored.apps[k].profiles)) <= 1
    /\ \A k \in DOMAIN Loaded.apps :
          Cardinality(ActiveIndexes(Loaded.apps[k].profiles)) <= 1

\* C3 witness: a stored application with three profiles, one of them active,
\* reached by a profile command
ThreeProfilesOneActive ==
    /\ last.op \in {"profile_add", "profile_activate", "profile_remove"}
    /\ last.result = "Ok"
    /\ \E k \in DOMAIN Stored.apps :
          /\ Len(Stored.apps[k].profiles) = 3
          /\ Cardinality(ActiveIndexes(Stored.apps[k].profiles)) = 1

\* C4: no application, as stored or as loaded, has two profiles of one type.
ProfileTypesUnique ==
    /\ \A k \in DOMAIN Stored.apps : \A t \in ProfileType :
          Cardinality(TypeIndexes(Stored.apps[k].profiles, t)) <= 1
    /\ \A k \in DOMAIN Loaded.apps : \A t \in ProfileType :
          Cardinality(TypeIndexes(Loaded.apps[k].profiles, t)) <= 1

\* C4 witness: the Dev profile that the migration made from the legacy directory
\* stood in the way of adding a second Dev profile
DuplicateOfMigratedRefused ==
    /\ last.op = "profile_add"
    /\ last.result = "DuplicateProfileType"
    /\ last.ptype = Some("Dev")
    /\ StoredTarget.profiles = <<>>
    /\ Len(last.before.profiles) = 1

\* C5: a successful remove of the active profile T leaves the other profiles in
\* their order with their contents, the first of them the only active one; when
\* T was the last profile, no profile and no active profile remains.
RemoveActiveReactivatesFirst ==
    (/\ last.op = "profile_remove"
     /\ last.result = "Ok"
     /\ \E i \in ActiveIndexes(last.before.profiles) :
           last.before.profiles[i].profile_type = Unwrap(last.ptype)) =>
        LET remaining == Without(last.before.profiles, Unwrap(last.ptype))
            now == last.after.profiles
        IN /\ Len(now) = Len(remaining)
           /\ \A i \in 1..Len(now) :
                 /\ now[i].profile_type = remaining[i].profile_type
                 /\ now[i].location = remaining[i].location
                 /\ now[i].machine_name = remaining[i].machine_name
                 /\ now[i].notes = remaining[i].notes
           /\ ActiveIndexes(now) = (IF now = <<>> THEN {} ELSE {1})
           /\ StoredTarget.profiles = now

\* C5 witness: the active profile was removed and two others remained
RemovedActiveOfThree ==
    /\ last.op = "profile_remove"
    /\ last.result = "Ok"
    /\ Len(last.before.profiles) = 3
    /\ \E i \in ActiveIndexes(last.before.profiles) :
          last.before.profiles[i].profile_type = Unwrap(last.ptype)

\* C6: a successful profile add appends the new profile at the end, active iff
\* the application had no profile before the call, and leaves every profile that
\* was there unchanged.
AddAppendsAndKeepsOthers ==
    (last.op = "profile_add" /\ last.result = "Ok") =>
        LET old == last.before.profiles
            now == last.after.profiles
        IN /\ Len(now) = Len(old) + 1
           /\ SubSeq(now, 1, Len(old)) = old
           /\ now[Len(now)].profile_type = Unwrap(last.ptype)
           /\ now[Len(now)].active = (old = <<>>)
           /\ StoredTarget.profiles = now

\* C6 witness: a profile added after two others, one of them active
AddedThirdProfile ==
    /\ last.op = "profile_add"
    /\ last.result = "Ok"
    /\ Len(last.before.profiles) = 2
    /\ ActiveIndexes(last.before.profiles) # {}

\* C7: a profile add that reaches add_profile is refused with
\* DuplicateProfileType exactly when the loaded application has a profile of
\* that type, and a refused add leaves the application as it was loaded.
DuplicateAddRefused ==
    (last.op = "profile_add" /\ last.result \in {"Ok", "DuplicateProfileType"}) =>
        /\ (last.result = "DuplicateProfileType")
              = (TypeIndexes(last.before.profiles, Unwrap(last.ptype)) # {})
        /\ (last.result = "DuplicateProfileType") =>
              /\ last.after.profiles = last.before.profiles
              /\ last.after.updated_at = last.before.updated_at
              /\ Loaded.apps[Unwrap(last.key)] = last.before

\* C7 witness: an add refused at a time when a refresh of updated_at would show
DuplicateRefusedLater ==
    /\ last.op = "profile_add"
    /\ last.result = "DuplicateProfileType"
    /\ last.before.updated_at # clock

\* C8: an invocation that ends in a validation failure leaves the backing file
\* as it was.
FailureLeavesFile == [][(last'.result \in ValidationFailures) => (file' = file)]_vars

\* C8 witness: an activation failed after its loop had rewritten the flags in
\* memory
FailedAfterPartialMutation ==
    /\ last.op = "profile_activate"
    /\ last.result = "ProfileTypeNotFound"
    /\ last.after # last.before

\* C9: after a successful profile add of T, the remove of T and the add of T that
\* follow it as separate invocations both succeed.
AddRemoveAddSucceeds == last.round_trip # "broken"

\* C9 witness: Dev added again to an application that has a legacy directory
ReaddedDevBesideLegacyDirectory ==
    /\ last.round_trip = "readded"
    /\ last.ptype = Some("Dev")
    /\ IsSome(last.after.directory)

\* C10: no two stored applications have names that are equal after case-folding.
NamesUniqueIgnoringCase ==
    \A k1 \in DOMAIN Stored.apps : \A k2 \in DOMAIN Stored.apps :
        (to_lowercase(k1) = to_lowercase(k2)) => (k1 = k2)

\* C13: app remove changes the store only when the answer, trimmed and
\* lower-cased, is "y" or "yes"; it then deletes the resolved key and leaves
\* every other application as load_data returned it; every other ending leaves
\* the file as it was.
RemoveOnlyWhenConfirmed ==
    [][(last'.op = "app_remove") =>
          /\ (file' # file) =>
                /\ last'.result = "Ok"
                /\ IsSome(Unwrap(last'.args).answer)
                /\ to_lowercase(trim(Unwrap(Unwrap(last'.args).answer)))
                      \in {<<"y">>, <<"y", "e", "s">>}
          /\ (last'.result = "Ok") =>
                /\ DOMAIN load_data(file').apps
                      = DOMAIN load_data(file).apps \ {Unwrap(last'.key)}
                /\ \A k \in DOMAIN load_data(file').apps :
                      load_data(file').apps[k] = load_data(file).apps[k]
          /\ (last'.result # "Ok") => (file' = file)]_vars

\* C13 witness: a confirmed removal that left another application in the store
RemovedOneOfTwo ==
    /\ last.op = "app_remove"
    /\ last.result = "Ok"
    /\ Unwrap(last.args).answer = Some(<<" ", "Y", "e", "s", " ", "\n">>)
    /\ DOMAIN Stored.apps # {}
    /\ Unwrap(last.key) \notin DOMAIN Stored.apps

\* C14: app remove with neither a search term nor --current-dir fails with
\* SelectorRequired, whatever the store holds.
RemoveWithoutSelectorFails ==
    (last.op = "app_remove" /\ Unwrap(last.args).selector = "none") =>
        last.result = "SelectorRequired"

\* C15 (as claimed): a record created by app add never has its directory field
\* set.
AddNeverSetsDirectory ==
    (last.op = "app_add" /\ last.result = "Ok") =>
        /\ ~IsSome(last.after.directory)
        /\ ~IsSome(StoredTarget.directory)

\* C15 (amended): a record created by app add has its directory field set to the
\* directory supplied (--dir or the working directory), and unset when none was.
AddKeepsSuppliedDirectory ==
    (last.op = "app_add" /\ last.result = "Ok") =>
        /\ last.after.directory = Unwrap(last.args).directory
        /\ StoredTarget.directory = Unwrap(last.args).directory
        /\ IsSome(last.after.directory) = (last.after.profiles # <<>>)

\* C15 witness: an application added with --dir
AddedWithDirectory ==
    /\ last.op = "app_add"
    /\ last.result = "Ok"
    /\ Unwrap(last.args).directory = Some(DirQ)
    /\ StoredTarget.directory = Some(DirQ)

\* C16: load returns an application stored with no profile and a legacy
\* directory with exactly one profile (Dev, at that directory, active) and the
\* legacy field still set; every other application is returned as stored.
LoadMigratesLegacyDirectory ==
    \A k \in DOMAIN Stored.apps :
        LET stored == Stored.apps[k]
            loaded == Loaded.apps[k]
        IN IF stored.profiles = <<>> /\ IsSome(stored.directory)
           THEN /\ Len(loaded.profiles) = 1
                /\ loaded.profiles[1].profile_type = "Dev"
                /\ loaded.profiles[1].location = Unwrap(stored.directory)
                /\ loaded.profiles[1].active
                /\ loaded.directory = stored.directory
                /\ [loaded EXCEPT !.profiles = <<>>] = stored
           ELSE loaded = stored

\* C16 witness: the file holds an application with no profile and a directory
StoredWithoutProfilesWithDirectory ==
    \E k \in DOMAIN Stored.apps :
        /\ Stored.apps[k].profiles = <<>>
        /\ IsSome(Stored.apps[k].directory)
        /\ Len(Loaded.apps[k].profiles) = 1

\* C19: after a successful profile remove of type T, the next load returns the
\* application without a profile of type T.
RemovedProfileStaysRemoved ==
    (last.op = "profile_remove" /\ last.result = "Ok") =>
        TypeIndexes(Loaded.apps[Unwrap(last.key)].profiles, Unwrap(last.ptype)) = {}

\* C20: every application with a profile, as stored and as loaded, has an
\* active profile.
NonEmptyHasActive ==
    /\ \A k \in DOMAIN Stored.apps :
          (Stored.apps[k].profiles # <<>>) =>
              ActiveIndexes(Stored.apps[k].profiles) # {}
    /\ \A k \in DOMAIN Loaded.apps :
          (Loaded.apps[k].profiles # <<>>) =>
              ActiveIndexes(Loaded.apps[k].profiles) # {}

\* C20 witness: the active profile was removed and the others, none of them
\* active before, are stored
ActiveRemovedOthersStored ==
    /\ last.op = "profile_remove"
    /\ last.result = "Ok"
    /\ Len(StoredTarget.profiles) = 2
    /\ \E i \in ActiveIndexes(last.before.profiles) :
          last.before.profiles[i].profile_type = Unwrap(last.ptype)

\* the stored names that a term matches in each tier, stated on the names
SameIgnoringCase(names, term) ==
    {n \in names : to_lowercase(n) = to_lowercase(term)}
SameNormalized(names, term) ==
    {n \in names : normalize_name(n) = normalize_name(term)}
OneContainsOther(names, term) ==
    {n \in names : \/ contains(normalize_name(n), normalize_name(term))
                   \/ contains(normalize_name(term), normalize_name(n))}

\* C11: a lookup returns a name equal to the term ignoring case when there is
\* one, else a name with the term's normalized form when there is one, else a
\* name whose normalized form contains or is contained in the term's when there
\* is one, else nothing.
ResolveRespectsTiers ==
    (last.op \in {"get", "profile_list"}) =>
        LET term == Unwrap(last.args).term
            names == DOMAIN Loaded.apps
            found(hits) == last.result = "Ok" /\ IsSome(last.key)
                           /\ Unwrap(last.key) \in hits
        IN IF SameIgnoringCase(names, term) # {}
           THEN found(SameIgnoringCase(names, term))
           ELSE IF SameNormalized(names, term) # {}
           THEN found(SameNormalized(names, term))
           ELSE IF OneContainsOther(names, term) # {}
           THEN found(OneContainsOther(names, term))
           ELSE last.result \in {"NotFound", "NoApps"} /\ last.key = None

\* C11 witness: a term that only the normalized tier matches, in a store where
\* the contains tier would match other names as well
NormalizedTierWon ==
    /\ last.op = "get"
    /\ last.result = "Ok"
    /\ SameIgnoringCase(DOMAIN Loaded.apps, Unwrap(last.args).term) = {}
    /\ Unwrap(last.key) \in SameNormalized(DOMAIN Loaded.apps, Unwrap(last.args).term)
    /\ OneContainsOther(DOMAIN Loaded.apps, Unwrap(last.args).term)
          # SameNormalized(DOMAIN Loaded.apps, Unwrap(last.args).term)

\* C12 (as claimed): the term "MyProj" finds "My-Project" through the
\* normalized-equality tier.
MyProjFoundByNormalizedTier ==
    (/\ last.op = "get"
     /\ Unwrap(last.args).term = MyProj
     /\ MyProject \in DOMAIN Loaded.apps) =>
        /\ last.key = Some(MyProject)
        /\ normalize_name(MyProj) = normalize_name(MyProject)

\* C12 (amended): "My-Project" matches the term "MyProj" in the contains tier
\* only, the lookup finds an application, and it is "My-Project" when no other
\* stored name matches the term.
MyProjFoundByContainsTier ==
    (/\ last.op = "get"
     /\ Unwrap(last.args).term = MyProj
     /\ MyProject \in DOMAIN Loaded.apps) =>
        LET search_lower == to_lowercase(MyProj)
            normalized_search == normalize_name(search_lower)
        IN /\ MyProject \notin ExactHits(Loaded.apps, search_lower)
           /\ MyProject \notin NormalizedHits(Loaded.apps, normalized_search)
           /\ MyProject \in ContainsHits(Loaded.apps, normalized_search)
           /\ last.result = "Ok"
           /\ (OneContainsOther(DOMAIN Loaded.apps, MyProj) = {MyProject}) =>
                 last.key = Some(MyProject)

\* C12 witness: "MyProj" looked up in a store that holds "My-Project" and others
MyProjFoundAmongOthers ==
    /\ last.op = "get"
    /\ Unwrap(last.args).term = MyProj
    /\ last.key = Some(MyProject)
    /\ Cardinality(DOMAIN Loaded.apps) >= 3
    /\ OneContainsOther(DOMAIN Loaded.apps, MyProj) = {MyProject}

\* C17 (as claimed): a store that holds an application with a profile of each
\* type, and any other application, is loaded back as it was saved.
SaveThenLoadIsIdentity ==
    (last.op = "save") => (Loaded = Unwrap(last.args).store)

\* the store an invocation would have written had it run alone
Alone(i) ==
    LET ran == Unwrap(invocations[i].command)
        base == invocations[i].base
    IN [base EXCEPT !.apps[ran.key] = RunCommand(ran, base.apps[ran.key], clock).app]

\* both invocations loaded before either wrote, w wrote last and o first
RacedAndWroteLast(w, o) ==
    /\ w # o
    /\ invocations[w].seen = 0 /\ invocations[o].seen = 0
    /\ invocations[o].order = 1 /\ invocations[w].order = 2

\* C18: when both invocations load before either saves, the file is the store
\* of the invocation that saved last, which is what that invocation alone
\* would have written: a profile the other one added is not in it, a profile
\* the other one removed is still in it.
LastWriterWins ==
    \A w, o \in Invocations :
        RacedAndWroteLast(w, o) =>
            LET mine == Unwrap(invocations[w].command)
                theirs == Unwrap(invocations[o].command)
                profiles == Stored.apps[theirs.key].profiles
            IN /\ file = save_data(invocations[w].data)
               /\ file = save_data(Alone(w))
               /\ (theirs.op = "profile_add" /\ theirs # mine) =>
                     TypeIndexes(profiles, theirs.type) = {}
               /\ (theirs.op = "profile_remove" /\ theirs # mine) =>
                     TypeIndexes(profiles, theirs.type) # {}

\* C18 witness: the Installed profile that the first writer added is not in
\* the file that the second writer, adding Binary, left
LostUpdate ==
    \E w, o \in Invocations :
        /\ RacedAndWroteLast(w, o)
        /\ Unwrap(invocations[o].command).op = "profile_add"
        /\ Unwrap(invocations[o].command).type = "Installed"
        /\ Unwrap(invocations[w].command).op = "profile_add"
        /\ Unwrap(invocations[w].command).type = "Binary"
        /\ TypeIndexes(Stored.apps[NameA].profiles, "Installed") = {}
        /\ TypeIndexes(Stored.apps[NameA].profiles, "Binary") # {}

\* C21: a term without alphanumeric characters that equals no stored name
\* ignoring case is matched with every stored name by the contains match and
\* finds an application unless the store is empty; a stored name without
\* alphanumeric characters is matched by the contains match with every term
\* that has no exact and no normalized hit, and such a term finds an
\* application.
EmptyNormalizedFormMatches ==
    (last.op \in {"get", "profile_list"}) =>
        LET term == Unwrap(last.args).term
            names == DOMAIN Loaded.apps
            normalized_search == normalize_name(to_lowercase(term))
            found == last.result = "Ok" /\ IsSome(last.key)
                     /\ Unwrap(last.key) \in names
            no_earlier_hit == /\ SameIgnoringCase(names, term) = {}
                              /\ SameNormalized(names, term) = {}
        IN /\ (normalize_name(term) = <<>> /\ SameIgnoringCase(names, term) = {}) =>
                 /\ ContainsHits(Loaded.apps, normalized_search) = names
                 /\ (names # {}) => found
                 /\ (names # {} /\ no_earlier_hit) =>
                       find_app_by_name(Loaded, term) = names
                 /\ (names = {}) <=> (last.key = None)
           /\ \A n \in names :
                 (normalize_name(n) = <<>> /\ no_earlier_hit) =>
                    /\ n \in ContainsHits(Loaded.apps, normalized_search)
                    /\ found

\* C21 witness: the empty term found an application in a store of two or more
\* names, all of them with alphanumeric characters
EmptyTermFoundAnApp ==
    /\ last.op = "get"
    /\ Unwrap(last.args).term = <<>>
    /\ last.result = "Ok"
    /\ Cardinality(DOMAIN Loaded.apps) >= 2
    /\ \A n \in DOMAIN Loaded.apps : normalize_name(n) # <<>>

\* C22: a profile add, activate or remove leaves the set of application keys
\* as it was and every application other than its target loads afterwards as
\* it loaded before.
ProfileCommandKeepsOtherApps ==
    [][(last'.op \in {"profile_add", "profile_activate", "profile_remove"}) =>
          /\ DOMAIN load_data(file').apps = DOMAIN load_data(file).apps
          /\ \A k \in DOMAIN load_data(file).apps :
                (last'.key # Some(k)) =>
                    load_data(file').apps[k] = load_data(file).apps[k]]_vars

\* C22 witness: a profile was added to "a" while "A", with a profile of its
\* own, was in the store
AddedProfileBesideOtherApp ==
    /\ last.op = "profile_add"
    /\ last.result = "Ok"
    /\ last.key = Some(NameA)
    /\ NameUpperA \in DOMAIN Loaded.apps
    /\ Loaded.apps[NameUpperA].profiles # <<>>
    /\ Loaded.apps[NameUpperA] # Loaded.apps[NameA]

====
